---- MODULE Spec2Model ----
(***************************************************************************)
(* Workflow patterns of the AI_Agentic_Udacity course repository:          *)
(*   - the claims pipeline (extract_claim -> assess_severity ->            *)
(*     route_claim) in its two LangGraph implementations,                  *)
(*       "cp": course1/claims-workflow/src/agents/claims_processor.py      *)
(*       "lg": course1/7-chaining_prompts/chaining-prompting_langgraph.py  *)
(*     and process_batch of "lg", which runs it once per input,            *)
(*   - the validation gates of both implementations, and the gates and     *)
(*     step functions of the sequential chain                              *)
(*       "chain": course1/7-chaining_prompts/chaining-prompting.py,        *)
(*   - the evaluator-optimizer loops,                                      *)
(*   - the fan-out / fan-in orchestrations.                                *)
(* Amounts of money are counted in cents, so that 1000.01 is 100001.       *)
(***************************************************************************)
EXTENDS Integers, Sequences, FiniteSets, TLC

VARIABLES
    \* ---- claims pipeline (one run of the compiled graph) ----
    pv,           \* which implementation runs: "cp" or "lg"
    fnol,         \* state["fnol"]
    model,        \* state["model"]
    node,         \* node the engine is at: START, a step, END, or CRASHED
                  \* after an exception outside a try block
    status,       \* state["status"]
    claim_info,   \* state["claim_info"]
    severity,     \* state["severity"]
    routing,      \* state["routing"]
    errors,       \* state["errors"]
    retry_count,  \* state["retry_count"] (lg only)
    log,          \* Completion Service invocations made so far, in order
    entered,      \* nodes the engine has entered so far, in order
    \* ---- process_batch (lg) ----
    fnols,        \* the argument fnols
    bmodel,       \* the argument model, NoText when omitted
    results,      \* the list results
    bpc,          \* position of process_batch
    \* ---- one gate applied to one raw response ----
    gv,           \* implementation of the gate: "cp", "lg" or "chain"
    gname,        \* "gate1", "gate2", "gate3", or a step function of chain
    gin,          \* the raw response handed to the gate
    gout,         \* the gate's outcome, or Pending before the call
    gout2,        \* the outcome of the gate on the re-serialized record
    \* ---- one call of an evaluator-optimizer loop ----
    lv,           \* "opt" (run_optimization_loop), "recipe"
                  \* (run_recipe_workflow) or "eval" (EvaluationAgent.evaluate)
    N,            \* max_retries / max_interactions of the call
    cyc,          \* the loop variable i
    lpc,          \* position of the call
    attempts,     \* failed attempts of the API call in progress (tenacity)
    draft,        \* cycle that generated the current candidate, 0 if none
    feedback,     \* feedback / correction instructions held for the next cycle
    prompt,       \* what the last Generator prompt was built from
    genLog,       \* Generator invocations so far: the cycle of each
    evalLog,      \* verdicts returned by the Evaluator so far
    result,       \* what the call returned or raised
    \* ---- fan-out / fan-in ----
    fv,           \* "demo" (05-parallelization/demo.py), "challenge"
                  \* (challenge.py) or "pro" (demo_professional.py)
    frun,         \* number of the current call of main / analyze_contract /
                  \* orchestrator in this process
    mainpc,       \* position of the orchestrating code
    mi,           \* index of the start / join loop
    tpc,          \* position of each specialist thread or task
    tres,         \* how each specialist ended in this run
    tatt,         \* failed attempts of each specialist task (tenacity, pro)
    agent_outputs,  \* the module-level result map of demo / challenge
    writes,       \* per key of the map, the threads that wrote it in this run
    summaryIn,    \* the inputs the summary step built its prompt from
    summaryCalls, \* Completion Service calls of the summary step, this run
    ended,        \* the tasks of gather in the order they ended (pro)
    fout,         \* how the current run ended
    \* ---- RAGKnowledgePromptAgent.chunk_text (one call) ----
    text,         \* the argument, then the normalized text
    chunk_size,   \* self.chunk_size
    chunk_overlap,  \* self.chunk_overlap
    kpc,          \* position in chunk_text
    start,        \* the local start
    chunks        \* the local chunks

pipeVars == <<pv, fnol, model, node, status, claim_info, severity, routing,
              errors, retry_count, log, entered>>
batchVars == <<fnols, bmodel, results, bpc>>
gateVars == <<gv, gname, gin, gout, gout2>>
fanVars == <<fv, frun, mainpc, mi, tpc, tres, tatt, agent_outputs, writes,
             summaryIn, summaryCalls, ended, fout>>
chunkVars == <<text, chunk_size, chunk_overlap, kpc, start, chunks>>
loopVars == <<lv, N, cyc, lpc, attempts, draft, feedback, prompt, genLog,
              evalLog, result>>

-----------------------------------------------------------------------------
(* Values *)

None == [tag |-> "None"]
Pending == [tag |-> "Pending"]
Variants == {"cp", "lg"}
GateVariants == {"cp", "lg", "chain"}
\* the implementations whose pydantic models carry the field constraints
Constrained(v) == v \in {"lg", "chain"}

\* the notices and the model names a caller passes
Fnols == {"fnol_a", "fnol_b"}
Models == {"gpt-4o-mini", "gpt-4.1-nano"}
\* no text: the model argument left out (None, falsy like the empty string)
NoText == ""
\* MODEL.value, used when the caller passes no model
DefaultModel == "gpt-4.1-mini"

\* est_cost is a float: a finite amount in cents, or NaN (json.loads reads NaN)
Cents(n) == [nan |-> FALSE, v |-> n]
NaN == [nan |-> TRUE, v |-> 0]
\* IEEE comparisons: every comparison with NaN is false
FLe(a, b) == ~a.nan /\ ~b.nan /\ a.v <= b.v
FLt(a, b) == ~a.nan /\ ~b.nan /\ a.v < b.v
Dollars(n) == Cents(100 * n)

\* Raw outputs of the Completion Service.  shape says how far json.loads and
\* the ** unpacking get: "raise" (get_completion raised), "garbage" (not
\* JSON), "nonobject" (JSON, but not an object), "object".  complete says
\* that every other required key of the model is present with its type.
ClaimIds == {"A", "CL", "CLAIM-0010", "CLAIM-00011"}
DescLens == {9, 10}
DamageAreas == {{}, {"glass"}, {"front", "rear"}, {"engine"}}
SeverityNames == {"Low", "Medium", "High", "Critical"}
CostValues == {Cents(-100), Cents(0), Cents(9999), Cents(10000),
               Cents(100000), Cents(100001), Cents(500000), Cents(500001),
               Cents(5000000), Cents(5000001), NaN}
QueueNames == {"glass", "fast_track", "material_damage", "total_loss",
               "auto", "manual", "specialist"}
PriorityNames == {"low", "urgent"}

Blank == [shape |-> "garbage", complete |-> FALSE, claim_id |-> "",
          loss_len |-> 0, damage_area |-> {}, severity |-> "",
          est_cost |-> Cents(0), queue |-> "", priority |-> ""]
ApiFailure == [Blank EXCEPT !.shape = "raise"]
Malformed == {Blank, [Blank EXCEPT !.shape = "nonobject"]}

ExtractObjects ==
    {[Blank EXCEPT !.shape = "object", !.complete = c, !.claim_id = id,
                   !.loss_len = l, !.damage_area = d] :
        c \in BOOLEAN, id \in ClaimIds, l \in DescLens, d \in DamageAreas}
SeverityObjects ==
    {[Blank EXCEPT !.shape = "object", !.complete = c, !.severity = s,
                   !.est_cost = x] :
        c \in BOOLEAN, s \in SeverityNames, x \in CostValues}
RoutingObjects ==
    {[Blank EXCEPT !.shape = "object", !.complete = c, !.claim_id = id,
                   !.queue = q, !.priority = p] :
        c \in BOOLEAN, id \in {"CL", "ZZ"}, q \in QueueNames,
        p \in PriorityNames}

ExtractResponses == Malformed \cup ExtractObjects
SeverityResponses == Malformed \cup SeverityObjects
RoutingResponses == Malformed \cup RoutingObjects

-----------------------------------------------------------------------------
(* Pydantic models *)

DamageLiteral == {"windshield", "front", "rear", "side", "roof", "hood",
                  "door", "bumper", "fender", "quarter panel", "trunk",
                  "glass"}
ClaimIdMin == 2
ClaimIdMax == 10
LossDescMin == 10
LossDescMax == 500

\* ClaimInformation(**d): TRUE iff pydantic accepts the object
ClaimInformationValid(v, r) ==
    /\ r.complete
    /\ Constrained(v) =>
          /\ Len(r.claim_id) >= ClaimIdMin /\ Len(r.claim_id) <= ClaimIdMax
          /\ r.loss_len >= LossDescMin /\ r.loss_len <= LossDescMax
          /\ r.damage_area \subseteq DamageLiteral
          /\ Cardinality(r.damage_area) >= 1

ClaimInformation(v, r) ==
    IF Constrained(v)
    THEN [tag |-> "ClaimInformation", claim_id |-> r.claim_id,
          loss_len |-> r.loss_len, damage_area |-> r.damage_area]
    ELSE [tag |-> "ClaimInformation", claim_id |-> r.claim_id,
          loss_len |-> 0, damage_area |-> {}]

\* SeverityAssessment(**d)
SeverityAssessmentValid(v, r) ==
    /\ r.complete
    /\ r.severity \in {"Low", "Medium", "High"}
    /\ Constrained(v) => (~r.est_cost.nan /\ r.est_cost.v > 0)

SeverityAssessment(r) ==
    [tag |-> "SeverityAssessment", severity |-> r.severity,
     est_cost |-> r.est_cost]

\* ClaimRouting(**d)
ClaimRoutingValid(v, r) ==
    /\ r.complete
    /\ IF Constrained(v)
       THEN r.queue \in {"glass", "fast_track", "material_damage",
                         "total_loss"}
       ELSE /\ r.queue \in {"auto", "manual", "specialist"}
            /\ r.priority \in {"low", "medium", "high"}

ClaimRouting(v, r) ==
    IF Constrained(v)
    THEN [tag |-> "ClaimRouting", claim_id |-> r.claim_id,
          queue |-> r.queue, priority |-> ""]
    ELSE [tag |-> "ClaimRouting", claim_id |-> "",
          queue |-> r.queue, priority |-> r.priority]

-----------------------------------------------------------------------------
(* Gates.  A gate returns the typed record or raises; both are values here. *)

Returned(x) == [ok |-> TRUE, value |-> x, exc |-> "", reason |-> ""]
Raised(e, why) == [ok |-> FALSE, value |-> None, exc |-> e, reason |-> why]

\* a gate1 that lets the TypeError of the ** unpacking through
gate1_validate_claims_info_unwrapped(v, r) ==
    CASE r.shape = "nonobject" -> Raised("TypeError", "not a mapping")
      [] r.shape = "object" /\ ClaimInformationValid(v, r) ->
            Returned(ClaimInformation(v, r))
      [] OTHER ->
            Raised("ValueError",
                   IF v = "lg" THEN "Invalid claim format"
                               ELSE "Invalid claim information format")

gate1_validate_claims_info(v, r) ==
    IF r.shape = "object" /\ ClaimInformationValid(v, r)
    THEN Returned(ClaimInformation(v, r))
    ELSE Raised("ValueError",
                IF v = "lg" THEN "Invalid claim format"
                            ELSE "Invalid claim information format")

\* a range test whose Medium interval is open at both ends
CostInRange_open(sev, cost) ==
    CASE sev = "Low"    -> FLe(Dollars(100), cost) /\ FLe(cost, Dollars(1000))
      [] sev = "Medium" -> FLt(Dollars(1000), cost) /\ FLt(cost, Dollars(5000))
      [] sev = "High"   -> FLt(Dollars(5000), cost) /\ FLe(cost, Dollars(50000))
      [] OTHER          -> TRUE

\* Medium closed at its lower end as well
CostInRange_closed(sev, cost) ==
    CASE sev = "Low"    -> FLe(Dollars(100), cost) /\ FLe(cost, Dollars(1000))
      [] sev = "Medium" -> FLe(Dollars(1000), cost) /\ FLe(cost, Dollars(5000))
      [] sev = "High"   -> FLt(Dollars(5000), cost) /\ FLe(cost, Dollars(50000))
      [] OTHER          -> TRUE

\* the range test of gate2: Low is closed at both ends, the others are open
\* at the lower end
CostInRange(sev, cost) ==
    CASE sev = "Low"    -> FLe(Dollars(100), cost) /\ FLe(cost, Dollars(1000))
      [] sev = "Medium" -> FLt(Dollars(1000), cost) /\ FLe(cost, Dollars(5000))
      [] sev = "High"   -> FLt(Dollars(5000), cost) /\ FLe(cost, Dollars(50000))
      [] OTHER          -> TRUE

\* the clause `except ValueError` of gate2 with exception res in hand: cp
\* and lg re-raise it; chain executes `raise ve from e`, where e is a local
\* name that was never bound
Reraise(v, res) ==
    IF v = "chain" THEN Raised("UnboundLocalError", "e") ELSE res

gate2_cost_range_ok(v, r) ==
    CASE r.shape = "garbage" ->
            \* json.JSONDecodeError is a ValueError: re-raised as it is
            Reraise(v, Raised("ValueError", "JSONDecodeError"))
      [] r.shape = "nonobject" ->
            \* TypeError from the ** unpacking: wrapped
            Raised("ValueError",
                   IF v = "lg" THEN "Invalid severity format"
                               ELSE "Invalid severity assessment format")
      [] r.shape = "object" /\ ~SeverityAssessmentValid(v, r) ->
            \* pydantic's ValidationError is a ValueError: re-raised as it is
            Reraise(v, Raised("ValueError", "ValidationError"))
      [] r.shape = "object" /\ SeverityAssessmentValid(v, r)
                            /\ ~CostInRange(r.severity, r.est_cost) ->
            Reraise(v, Raised("ValueError", "Cost out of range"))
      [] OTHER -> Returned(SeverityAssessment(r))

gate3_validate_routing(v, r) ==
    IF r.shape = "object" /\ ClaimRoutingValid(v, r)
    THEN Returned(ClaimRouting(v, r))
    ELSE Raised("ValueError",
                IF v = "lg" THEN "Invalid routing format"
                            ELSE "Invalid claim routing format")

\* get_completion: the text of the response, or RuntimeError
get_completion(v, r) ==
    IF r.shape = "raise"
    THEN Raised("RuntimeError",
                CASE v = "lg" -> "API error"
                  [] v = "cp" -> "OpenAI API error"
                  [] OTHER    -> "Error en API call")
    ELSE Returned(r)

\* the handlers of extract_claim_information and route_claim of chain around
\* their gate: `except ValueError as ve: raise ve from e` (e never bound),
\* `except Exception as e: raise RuntimeError(...)`
HandleUnbound(res, why) ==
    CASE res.ok                 -> res
      [] res.exc = "ValueError" -> Raised("UnboundLocalError", "e")
      [] OTHER                  -> Raised("RuntimeError", why)

\* the handlers of assess_severity of chain: `except ValueError: raise`,
\* `except Exception as e: raise RuntimeError(...)`
HandleBare(res, why) ==
    CASE res.ok                 -> res
      [] res.exc = "ValueError" -> res
      [] OTHER                  -> Raised("RuntimeError", why)

\* the step functions of chain: get_completion is called outside the try
extract_claim_information(r) ==
    IF ~get_completion("chain", r).ok THEN get_completion("chain", r)
    ELSE HandleUnbound(gate1_validate_claims_info("chain", r),
                       "Error extracting claim information")

assess_severity(r) ==
    IF ~get_completion("chain", r).ok THEN get_completion("chain", r)
    ELSE HandleBare(gate2_cost_range_ok("chain", r),
                    "Error assessing severity")

route_claim(r) ==
    IF ~get_completion("chain", r).ok THEN get_completion("chain", r)
    ELSE HandleUnbound(gate3_validate_routing("chain", r),
                       "Error routing claim")

\* a serializer that writes est_cost as whole dollars
model_dump_json_rounded(rec) ==
    CASE rec.tag = "ClaimInformation" ->
            [Blank EXCEPT !.shape = "object", !.complete = TRUE,
                          !.claim_id = rec.claim_id,
                          !.loss_len = rec.loss_len,
                          !.damage_area = rec.damage_area]
      [] rec.tag = "SeverityAssessment" ->
            [Blank EXCEPT !.shape = "object",
                          !.complete = ~rec.est_cost.nan,
                          !.severity = rec.severity,
                          !.est_cost = [rec.est_cost EXCEPT
                                          !.v = (@ \div 100) * 100]]
      [] rec.tag = "ClaimRouting" ->
            [Blank EXCEPT !.shape = "object", !.complete = TRUE,
                          !.claim_id = rec.claim_id, !.queue = rec.queue,
                          !.priority = rec.priority]

\* record.model_dump_json(): a JSON object with every field of the model;
\* a NaN float is written as null, which is not a float when read back
model_dump_json(rec) ==
    CASE rec.tag = "ClaimInformation" ->
            [Blank EXCEPT !.shape = "object", !.complete = TRUE,
                          !.claim_id = rec.claim_id,
                          !.loss_len = rec.loss_len,
                          !.damage_area = rec.damage_area]
      [] rec.tag = "SeverityAssessment" ->
            [Blank EXCEPT !.shape = "object",
                          !.complete = ~rec.est_cost.nan,
                          !.severity = rec.severity,
                          !.est_cost = rec.est_cost]
      [] rec.tag = "ClaimRouting" ->
            [Blank EXCEPT !.shape = "object", !.complete = TRUE,
                          !.claim_id = rec.claim_id, !.queue = rec.queue,
                          !.priority = rec.priority]

-----------------------------------------------------------------------------
(* The claims pipeline *)

Steps == <<"extract_claim", "assess_severity", "route_claim">>
StepIndex(n) == CHOOSE i \in 1..3 : Steps[i] = n
ErrorLabel(n) ==
    CASE n = "extract_claim"   -> "Extraction error"
      [] n = "assess_severity" -> "Severity error"
      [] n = "route_claim"     -> "Routing error"

\* the try block of a node: the Completion Service call, then the gate
TryBlock(n, r) ==
    LET c == get_completion(pv, r)
    IN  IF ~c.ok THEN c
        ELSE CASE n = "extract_claim"   -> gate1_validate_claims_info(pv, r)
               [] n = "assess_severity" -> gate2_cost_range_ok(pv, r)
               [] n = "route_claim"     -> gate3_validate_routing(pv, r)

ErrorEntry(n, res) ==
    [step |-> ErrorLabel(n), exc |-> res.exc, reason |-> res.reason]
LogEntry(n, res) ==
    [step |-> n, ok |-> res.ok, exc |-> res.exc, reason |-> res.reason]

\* the statuses of the first two steps exchanged
SuccessStatus_swapped(n) ==
    CASE n = "extract_claim"   -> "severity_assessed"
      [] n = "assess_severity" -> "claim_extracted"
      [] n = "route_claim"     -> "completed"

\* status written by a node whose gate accepted
SuccessStatus(n) ==
    CASE n = "extract_claim"   -> "claim_extracted"
      [] n = "assess_severity" -> "severity_assessed"
      [] n = "route_claim"     -> "completed"

\* a conditional edge that never ends the run
should_continue_always(st) == "continue"

should_continue(st) == IF st = "failed" THEN "end" ELSE "continue"

\* a graph whose edge out of assess_severity always leads to END
NextNode_truncated(n, st) ==
    CASE n = "START" -> "extract_claim"
      [] n = "extract_claim" ->
            IF should_continue(st) = "continue" THEN "assess_severity"
                                                ELSE "END"
      [] n = "assess_severity" -> "END"
      [] n = "route_claim" -> "END"

\* a graph without the edge into assess_severity
NextNode_skip(n, st) ==
    CASE n = "START" -> "extract_claim"
      [] n = "extract_claim" ->
            IF should_continue(st) = "continue" THEN "route_claim"
                                                ELSE "END"
      [] n = "assess_severity" ->
            IF should_continue(st) = "continue" THEN "route_claim"
                                                ELSE "END"
      [] n = "route_claim" -> "END"

\* an engine that goes from a failed extraction back into extract_claim
NextNode_reenter(n, st) ==
    CASE n = "START" -> "extract_claim"
      [] n = "extract_claim" ->
            IF should_continue(st) = "continue" THEN "assess_severity"
                                                ELSE "extract_claim"
      [] n = "assess_severity" ->
            IF should_continue(st) = "continue" THEN "route_claim"
                                                ELSE "END"
      [] n = "route_claim" -> "END"

\* a graph whose edges are all unconditional
NextNode_through(n, st) ==
    CASE n = "START" -> "extract_claim"
      [] n = "extract_claim" -> "assess_severity"
      [] n = "assess_severity" -> "route_claim"
      [] n = "route_claim" -> "END"

\* the edges of build_graph / build_workflow
NextNode(n, st) ==
    CASE n = "START" -> "extract_claim"
      [] n = "extract_claim" ->
            IF should_continue(st) = "continue" THEN "assess_severity"
                                                ELSE "END"
      [] n = "assess_severity" ->
            IF should_continue(st) = "continue" THEN "route_claim"
                                                ELSE "END"
      [] n = "route_claim" -> "END"

RetryBound == 3
\* a retry test that gives up one attempt early
ShouldRetry_early(rc) == rc + 1 < RetryBound

\* an off-by-one retry test
ShouldRetry_inclusive(rc) == rc <= RetryBound

\* the test that makes extract_claim_node of lg call itself again
ShouldRetry(rc) == rc < RetryBound

\* the new entry replaces the list instead of extending it
AppendError_overwrite(errs, e) == <<e>>

\* a failure that leaves no entry
AppendError_drop(errs, e) == errs

\* the new entry put in front of the list
AppendError_prepend(errs, e) == <<e>> \o errs

\* errors after a failed attempt
AppendError(errs, e) == Append(errs, e)

\* a severity step that returns its value under the key of the first step
FieldOf_misplaced(n) ==
    CASE n = "extract_claim"   -> "claim_info"
      [] n = "assess_severity" -> "claim_info"
      [] n = "route_claim"     -> "routing"

\* the key of the state under which a node returns its validated value
FieldOf(n) ==
    CASE n = "extract_claim"   -> "claim_info"
      [] n = "assess_severity" -> "severity"
      [] n = "route_claim"     -> "routing"

\* the engine merges the value node n returned: that key changes, the other
\* structured fields keep their value
WriteField(n, x) ==
    /\ claim_info' = IF FieldOf(n) = "claim_info" THEN x ELSE claim_info
    /\ severity' = IF FieldOf(n) = "severity" THEN x ELSE severity
    /\ routing' = IF FieldOf(n) = "routing" THEN x ELSE routing

\* what test_direct / test_workflow return for a final record with errors
\* errs: False when the list is there and non-empty, True otherwise
test_direct(errs) == errs = << >>

\* the engine moves to node m
Goto(m) ==
    /\ node' = m
    /\ entered' = IF m = "END" THEN entered ELSE Append(entered, m)

InitialStatus(v) == IF v = "lg" THEN "processing" ELSE "unset"

PipeInit ==
    /\ pv \in Variants
    /\ fnol \in Fnols
    /\ model \in Models
    /\ node = "START"
    /\ status = InitialStatus(pv)
    /\ claim_info = None /\ severity = None /\ routing = None
    /\ errors = << >>
    /\ retry_count = 0
    /\ log = << >>
    /\ entered = << >>

\* what a call of the Completion Service can bring: in a single run every
\* outcome of S, during a batch one outcome that passes the try block of the
\* node and one that fails it
Representative(n, S) ==
    {CHOOSE r \in S : TryBlock(n, r).ok, CHOOSE r \in S : ~TryBlock(n, r).ok}
Drawn(n, S) == IF bpc = "off" THEN S ELSE Representative(n, S)

\* the log line a node writes before its try block: assess_severity_node and
\* route_claim_node read claim_info.claim_id there, which raises when
\* claim_info is not there
PreambleOk(n) == n = "extract_claim" \/ claim_info # None

\* an exception outside the try block leaves the node and ends the run
Crash ==
    /\ node' = "CRASHED"
    /\ UNCHANGED <<status, claim_info, severity, routing, errors, log,
                   entered>>

\* graph.invoke / app.invoke: the entry edge
Invoke ==
    /\ node = "START"
    /\ Goto(NextNode("START", status))
    /\ UNCHANGED <<pv, fnol, model, status, claim_info, severity, routing,
                   errors, retry_count, log>>
    /\ UNCHANGED <<batchVars, gateVars, loopVars, fanVars, chunkVars>>

\* one attempt of extract_claim_node
extract_claim_node ==
    /\ node = "extract_claim"
    /\ \E r \in Drawn(node, ExtractResponses \cup {ApiFailure}) :
         LET res == TryBlock(node, r)
         IN  /\ log' = Append(log, LogEntry(node, res))
             /\ IF res.ok
                THEN /\ WriteField(node, res.value)
                     /\ status' = SuccessStatus(node)
                     /\ Goto(NextNode(node, status'))
                     /\ UNCHANGED <<errors, retry_count>>
                ELSE /\ errors' = AppendError(errors, ErrorEntry(node, res))
                     /\ IF pv = "lg"
                        THEN /\ retry_count' = retry_count + 1
                             /\ IF ShouldRetry(retry_count')
                                THEN UNCHANGED <<status, node, entered>>
                                ELSE /\ status' = "failed"
                                     /\ Goto(NextNode(node, status'))
                        ELSE /\ status' = "failed"
                             /\ Goto(NextNode(node, status'))
                             /\ UNCHANGED retry_count
                     /\ UNCHANGED <<claim_info, severity, routing>>
    /\ UNCHANGED <<pv, fnol, model>>
    /\ UNCHANGED <<batchVars, gateVars, loopVars, fanVars, chunkVars>>

assess_severity_node ==
    /\ node = "assess_severity"
    /\ IF PreambleOk(node)
       THEN \E r \in Drawn(node, SeverityResponses \cup {ApiFailure}) :
         LET res == TryBlock(node, r)
         IN  /\ log' = Append(log, LogEntry(node, res))
             /\ IF res.ok
                THEN /\ WriteField(node, res.value)
                     /\ status' = SuccessStatus(node)
                     /\ UNCHANGED errors
                ELSE /\ errors' = AppendError(errors, ErrorEntry(node, res))
                     /\ status' = "failed"
                     /\ UNCHANGED <<claim_info, severity, routing>>
             /\ Goto(NextNode(node, status'))
       ELSE Crash
    /\ UNCHANGED <<pv, fnol, model, retry_count>>
    /\ UNCHANGED <<batchVars, gateVars, loopVars, fanVars, chunkVars>>

route_claim_node ==
    /\ node = "route_claim"
    /\ IF PreambleOk(node)
       THEN \E r \in Drawn(node, RoutingResponses \cup {ApiFailure}) :
         LET res == TryBlock(node, r)
         IN  /\ log' = Append(log, LogEntry(node, res))
             /\ IF res.ok
                THEN /\ WriteField(node, res.value)
                     /\ status' = SuccessStatus(node)
                     /\ UNCHANGED errors
                ELSE /\ errors' = AppendError(errors, ErrorEntry(node, res))
                     /\ status' = "failed"
                     /\ UNCHANGED <<claim_info, severity, routing>>
             /\ Goto(NextNode(node, status'))
       ELSE Crash
    /\ UNCHANGED <<pv, fnol, model, retry_count>>
    /\ UNCHANGED <<batchVars, gateVars, loopVars, fanVars, chunkVars>>

-----------------------------------------------------------------------------
(* process_batch of lg: one process_claim per input *)

MaxBatch == 2
BatchInputs == UNION {[1..n -> Fnols] : n \in 0..MaxBatch}

\* a record that starts from what the previous entry left behind
initial_state_carried(f, m) ==
    [fnol |-> f, claim_info |-> None, severity |-> None, routing |-> None,
     errors |-> errors, retry_count |-> retry_count, status |-> "processing",
     model |-> IF m = NoText THEN DefaultModel ELSE m]

\* the dict initial_state of process_claim
initial_state(f, m) ==
    [fnol |-> f, claim_info |-> None, severity |-> None, routing |-> None,
     errors |-> << >>, retry_count |-> 0, status |-> "processing",
     model |-> IF m = NoText THEN DefaultModel ELSE m]

\* the dict app.invoke returns
FinalState ==
    [fnol |-> fnol, claim_info |-> claim_info, severity |-> severity,
     routing |-> routing, errors |-> errors, retry_count |-> retry_count,
     status |-> status, model |-> model]

BatchIdle == fnols = << >> /\ bmodel = NoText /\ results = << >> /\ bpc = "off"

BatchInit ==
    /\ fnols \in BatchInputs
    /\ bmodel \in Models \cup {NoText}
    /\ results = << >>
    /\ bpc = "loop"
    /\ pv = "lg" /\ fnol = NoText /\ model = NoText
    /\ node = "END" /\ status = "unset"
    /\ claim_info = None /\ severity = None /\ routing = None
    /\ errors = << >> /\ retry_count = 0 /\ log = << >> /\ entered = << >>

\* the head of the for loop: process_claim builds a new graph with a new
\* MemorySaver and a new initial_state for the next entry, or the loop ends
\* and results is returned
process_batch ==
    /\ bpc = "loop"
    /\ IF Len(results) < Len(fnols)
       THEN LET s == initial_state(fnols[Len(results) + 1], bmodel)
            IN  /\ fnol' = s.fnol /\ model' = s.model
                /\ claim_info' = s.claim_info /\ severity' = s.severity
                /\ routing' = s.routing /\ errors' = s.errors
                /\ retry_count' = s.retry_count /\ status' = s.status
                /\ node' = "START" /\ log' = << >> /\ entered' = << >>
                /\ bpc' = "claim"
       ELSE /\ bpc' = "done"
            /\ UNCHANGED <<fnol, model, claim_info, severity, routing,
                           errors, retry_count, status, node, log, entered>>
    /\ UNCHANGED <<pv, fnols, bmodel, results, gateVars, loopVars, fanVars,
                   chunkVars>>

\* process_claim returns final_state and process_batch appends it
process_claim_return ==
    /\ bpc = "claim" /\ node = "END"
    /\ results' = Append(results, FinalState)
    /\ bpc' = "loop"
    /\ UNCHANGED <<pipeVars, fnols, bmodel, gateVars, loopVars, fanVars,
                   chunkVars>>

-----------------------------------------------------------------------------
(* One gate applied to one raw response *)

GateNames == {"gate1", "gate2", "gate3"}
ChainSteps == {"extract_claim_information", "assess_severity", "route_claim"}
GateInputs(g) ==
    CASE g = "gate1" -> ExtractResponses
      [] g = "gate2" -> SeverityResponses
      [] g = "gate3" -> RoutingResponses
      [] g = "extract_claim_information" -> ExtractResponses \cup {ApiFailure}
      [] g = "assess_severity" -> SeverityResponses \cup {ApiFailure}
      [] g = "route_claim" -> RoutingResponses \cup {ApiFailure}

GateIdle ==
    /\ gv = "cp" /\ gname = "gate1" /\ gin = Blank
    /\ gout = Pending /\ gout2 = Pending
PipeIdle ==
    /\ pv = "cp" /\ fnol = NoText /\ model = NoText
    /\ node = "END" /\ status = "unset"
    /\ claim_info = None /\ severity = None /\ routing = None
    /\ errors = << >> /\ retry_count = 0 /\ log = << >> /\ entered = << >>

GateInit ==
    /\ gv \in GateVariants
    /\ gname \in GateNames \cup (IF gv = "chain" THEN ChainSteps ELSE {})
    /\ gin \in GateInputs(gname)
    /\ gout = Pending
    /\ gout2 = Pending

ApplyGate(g, v, r) ==
    CASE g = "gate1" -> gate1_validate_claims_info(v, r)
      [] g = "gate2" -> gate2_cost_range_ok(v, r)
      [] g = "gate3" -> gate3_validate_routing(v, r)
      [] g = "extract_claim_information" -> extract_claim_information(r)
      [] g = "assess_severity" -> assess_severity(r)
      [] g = "route_claim" -> route_claim(r)

\* the gate, or the step function, is called with the raw response
CallGate ==
    /\ gout = Pending
    /\ gout' = ApplyGate(gname, gv, gin)
    /\ UNCHANGED <<gv, gname, gin, gout2, pipeVars, batchVars, loopVars,
                   fanVars, chunkVars>>

\* the accepted record is serialized again and handed to the same gate
Revalidate ==
    /\ gout # Pending /\ gout.ok
    /\ gout2 = Pending
    /\ gout2' = ApplyGate(gname, gv, model_dump_json(gout.value))
    /\ UNCHANGED <<gv, gname, gin, gout, pipeVars, batchVars, loopVars,
                   fanVars, chunkVars>>

-----------------------------------------------------------------------------
(* The evaluator-optimizer loops *)

LoopVariants == {"opt", "recipe", "eval"}
MaxN == 3
StopAfterAttempt == 3

NoFeedback == [cycle |-> 0, empty |-> TRUE]
\* a prompt is the original request, the cycles whose feedback it quotes and
\* the cycles whose candidate it quotes
NoPrompt == [orig |-> FALSE, fb |-> {}, resp |-> {}]
NoResult == [kind |-> "pending", exc |-> "", final |-> 0,
             evaluation |-> "", iterations |-> 0]

\* calls that are made once, without @retry
HasRetry_none(v) == FALSE

\* the calls of opt and recipe are wrapped in tenacity's @retry
HasRetry(v) == v \in {"opt", "recipe"}

\* a Generator that is given the feedback of every cycle so far
FeedbackPrompt_accumulated(fb) ==
    [orig |-> TRUE,
     fb |-> IF fb.cycle # 0 /\ ~fb.empty THEN 1..fb.cycle ELSE {},
     resp |-> {}]

\* the Generator prompt of opt / recipe: the request, plus the feedback when
\* there is one and it is not the empty string
FeedbackPrompt(fb) ==
    [orig |-> TRUE,
     fb |-> IF fb.cycle # 0 /\ ~fb.empty THEN {fb.cycle} ELSE {},
     resp |-> {}]

\* the return value when the Evaluator approves in loop iteration i
\* an approval that reports the loop variable itself
ApprovedResult_zero_based(v, i, d) ==
    IF v = "eval"
    THEN [NoResult EXCEPT !.kind = "dict", !.final = d,
                          !.evaluation = "yes", !.iterations = i]
    ELSE [NoResult EXCEPT !.kind = "value", !.final = d]

ApprovedResult(v, i, d) ==
    IF v = "eval"
    THEN [NoResult EXCEPT !.kind = "dict", !.final = d,
                          !.evaluation = "yes", !.iterations = i + 1]
    ELSE [NoResult EXCEPT !.kind = "value", !.final = d]

\* the statement after the loop
ExhaustedResult(v, n, d) ==
    CASE v \in {"opt", "recipe"} ->
            [NoResult EXCEPT !.kind = "None"]
      [] v = "eval" /\ n = 0 ->
            \* response_from_worker was never bound
            [NoResult EXCEPT !.kind = "raised", !.exc = "UnboundLocalError"]
      [] OTHER ->
            [NoResult EXCEPT !.kind = "dict", !.final = d,
                             !.evaluation = "no", !.iterations = n]

\* a loop that runs once more than its ceiling
InRange_inclusive(i, n) == i <= n

\* for i in range(N)
InRange(i, n) == i < n

\* the stopping test with its sense inverted
IsApproved_inverted(approved) == ~approved

\* the stopping test on the verdict: is_compliant / is_approved /
\* evaluation.lower().startswith("yes")
IsApproved(approved) == approved

\* the head of the for loop, reached with loop variable i
LoopHead(i) ==
    IF InRange(i, N)
    THEN /\ cyc' = i
         /\ lpc' = "generate"
         /\ result' = result
    ELSE /\ cyc' = cyc
         /\ lpc' = IF ExhaustedResult(lv, N, draft).kind = "raised"
                   THEN "raised" ELSE "returned"
         /\ result' = ExhaustedResult(lv, N, draft)

\* an API call raised: tenacity tries again until the 3rd attempt, the
\* plain calls of EvaluationAgent propagate at once
ApiRaised ==
    IF HasRetry(lv) /\ attempts + 1 < StopAfterAttempt
    THEN /\ attempts' = attempts + 1
         /\ UNCHANGED <<lpc, result>>
    ELSE /\ attempts' = attempts + 1
         /\ lpc' = "raised"
         /\ result' = [NoResult EXCEPT
                          !.kind = "raised",
                          !.exc = IF HasRetry(lv) THEN "RetryError"
                                                  ELSE "APIError"]

LoopInit ==
    /\ lv \in LoopVariants
    /\ N \in 0..MaxN
    /\ cyc = 0
    /\ lpc = "idle"
    /\ attempts = 0
    /\ draft = 0
    /\ feedback = NoFeedback
    /\ prompt = NoPrompt
    /\ genLog = << >>
    /\ evalLog = << >>
    /\ result = NoResult

LoopIdle ==
    /\ lv = "opt" /\ N = 0 /\ cyc = 0 /\ lpc = "off" /\ attempts = 0
    /\ draft = 0 /\ feedback = NoFeedback /\ prompt = NoPrompt
    /\ genLog = << >> /\ evalLog = << >> /\ result = NoResult

\* the call: feedback = None / prompt_to_evaluate = initial_prompt
CallLoop ==
    /\ lpc = "idle"
    /\ feedback' = NoFeedback
    /\ prompt' = IF lv = "eval" THEN [orig |-> TRUE, fb |-> {}, resp |-> {}]
                                ELSE NoPrompt
    /\ LoopHead(0)
    /\ UNCHANGED <<lv, N, attempts, draft, genLog, evalLog>>
    /\ UNCHANGED <<pipeVars, batchVars, gateVars, fanVars, chunkVars>>

\* generator.generate / chef.create_recipe / worker_agent.respond
Generate ==
    /\ lpc = "generate"
    /\ genLog' = IF attempts = 0 THEN Append(genLog, cyc + 1) ELSE genLog
    /\ \/ /\ draft' = cyc + 1
          /\ prompt' = IF lv = "eval" THEN prompt
                                      ELSE FeedbackPrompt(feedback)
          /\ attempts' = 0
          /\ lpc' = "evaluate"
          /\ UNCHANGED result
       \/ /\ ApiRaised
          /\ UNCHANGED <<draft, prompt>>
    /\ UNCHANGED <<lv, N, cyc, feedback, evalLog>>
    /\ UNCHANGED <<pipeVars, batchVars, gateVars, fanVars, chunkVars>>

\* evaluator.evaluate / auditor.audit_recipe / the evaluation request,
\* followed by the stopping test
Evaluate ==
    /\ lpc = "evaluate"
    /\ \/ \E approved \in BOOLEAN, empty \in BOOLEAN :
            /\ evalLog' = Append(evalLog, approved)
            /\ attempts' = 0
            /\ IF IsApproved(approved)
               THEN /\ lpc' = "returned"
                    /\ result' = ApprovedResult(lv, cyc, draft)
                    /\ UNCHANGED <<cyc, feedback>>
               ELSE IF lv = "eval"
                    THEN /\ lpc' = "instruct"
                         /\ UNCHANGED <<cyc, feedback, result>>
                    ELSE /\ feedback' = [cycle |-> cyc + 1, empty |-> empty]
                         /\ LoopHead(cyc + 1)
       \/ /\ ApiRaised
          /\ UNCHANGED <<cyc, feedback, evalLog>>
    /\ UNCHANGED <<lv, N, draft, prompt, genLog>>
    /\ UNCHANGED <<pipeVars, batchVars, gateVars, fanVars, chunkVars>>

\* a refinement prompt that is appended to the prompt of the cycle
CorrectionPrompt_accumulated(p, c, d) ==
    [orig |-> TRUE, fb |-> p.fb \cup {c}, resp |-> p.resp \cup {d}]

\* the refinement prompt of EvaluationAgent after cycle c, whose prompt was
\* p and whose worker response was d: initial_prompt, that response and the
\* instructions of that cycle
CorrectionPrompt(p, c, d) == [orig |-> TRUE, fb |-> {c}, resp |-> {d}]

\* EvaluationAgent only: the correction instructions and the next prompt
Instruct ==
    /\ lpc = "instruct"
    /\ \/ \E empty \in BOOLEAN :
            /\ feedback' = [cycle |-> cyc + 1, empty |-> empty]
            /\ prompt' = CorrectionPrompt(prompt, cyc + 1, draft)
            /\ attempts' = 0
            /\ LoopHead(cyc + 1)
       \/ /\ ApiRaised
          /\ UNCHANGED <<cyc, feedback, prompt>>
    /\ UNCHANGED <<lv, N, draft, genLog, evalLog>>
    /\ UNCHANGED <<pipeVars, batchVars, gateVars, fanVars, chunkVars>>

-----------------------------------------------------------------------------
(* Fan-out / fan-in *)

FanVariants == {"demo", "challenge", "pro"}
NumAgents == 3
Agents == 1..NumAgents
MaxRuns == 2
Missing == 0

\* two specialists that write under the same key
KeyOf_shared(v, i) ==
    CASE v = "demo"      -> <<"policy", "policy", "market">>[i]
      [] v = "challenge" -> <<"legal", "legal", "financial">>[i]
      [] v = "pro"       -> <<"Policy Expert", "Tech Expert",
                              "Market Analyst">>[i]

\* the key each specialist writes in agent_outputs / its name in AGENTS_CONFIG
KeyOf(v, i) ==
    CASE v = "demo"      -> <<"policy", "tech", "market">>[i]
      [] v = "challenge" -> <<"legal", "compliance", "financial">>[i]
      [] v = "pro"       -> <<"Policy Expert", "Tech Expert",
                              "Market Analyst">>[i]
Keys(v) == {KeyOf(v, i) : i \in Agents}
Threaded(v) == v \in {"demo", "challenge"}

ResultOf(i, r) == [agent |-> i, kind |-> "result", run |-> r]
Placeholder(i) == [agent |-> i, kind |-> "placeholder", run |-> 0]

\* inputs[key] of demo: the value, or KeyError
Subscript(outputs, v, i) ==
    IF outputs[KeyOf(v, i)] = Missing
    THEN [ok |-> FALSE, value |-> Placeholder(i)]
    ELSE [ok |-> TRUE, value |-> ResultOf(i, outputs[KeyOf(v, i)])]

\* inputs.get(key, "No ... analysis provided.") of challenge
GetWithDefault(outputs, v, i) ==
    IF outputs[KeyOf(v, i)] = Missing
    THEN Placeholder(i)
    ELSE ResultOf(i, outputs[KeyOf(v, i)])

\* a filter that keeps every entry of results, exceptions included
ValidOutputs_all(res, r) == [i \in Agents |-> ResultOf(i, r)]

\* results collected in the order the tasks ended instead of gather's order
ValidOutputs_as_completed(res, r) ==
    LET ok == SelectSeq(ended, LAMBDA i : res[i] = "ok")
    IN  [k \in 1..Len(ok) |-> ResultOf(ok[k], r)]

\* the filter of orchestrator: the AgentOutput results, in the order of
\* the result list of gather
ValidOutputs(res, r) ==
    LET F[i \in 0..NumAgents] ==
            IF i = 0 THEN << >>
            ELSE IF res[i] = "ok" THEN Append(F[i - 1], ResultOf(i, r))
                                  ELSE F[i - 1]
    IN  F[NumAgents]

\* a join that does not wait for the thread
Joinable_nowait(pcs, i) == TRUE

\* the join loop: t.join() returns once thread t has ended
Joinable(pcs, i) == pcs[i] = "finished"

\* gather returns once every task has ended
AllEnded(pcs) == \A i \in Agents : pcs[i] = "finished"

FanInit ==
    /\ fv \in FanVariants
    /\ frun = 1
    /\ mainpc = "idle"
    /\ mi = 1
    /\ tpc = [i \in Agents |-> "new"]
    /\ tres = [i \in Agents |-> "none"]
    /\ tatt = [i \in Agents |-> 0]
    /\ agent_outputs = [k \in Keys(fv) |-> Missing]
    /\ writes = [k \in Keys(fv) |-> << >>]
    /\ summaryIn = << >>
    /\ summaryCalls = 0
    /\ ended = << >>
    /\ fout = "none"

FanIdle ==
    /\ fv = "demo" /\ frun = 0 /\ mainpc = "off" /\ mi = 1
    /\ tpc = [i \in Agents |-> "new"]
    /\ tres = [i \in Agents |-> "none"]
    /\ tatt = [i \in Agents |-> 0]
    /\ agent_outputs = [k \in Keys("demo") |-> Missing]
    /\ writes = [k \in Keys("demo") |-> << >>]
    /\ summaryIn = << >> /\ summaryCalls = 0 /\ fout = "none"
    /\ ended = << >>

\* main() / analyze_contract() / orchestrator() is called: the threads are
\* created, or gather schedules every task
CallFanOut ==
    /\ mainpc = "idle"
    /\ IF Threaded(fv)
       THEN /\ mainpc' = "start"
            /\ tpc' = [i \in Agents |-> "new"]
       ELSE /\ mainpc' = "gather"
            /\ tpc' = [i \in Agents |-> "running"]
    /\ mi' = 1
    /\ UNCHANGED <<fv, ended, writes, frun, tres, tatt, agent_outputs,
                   summaryIn, summaryCalls, fout>>
    /\ UNCHANGED <<pipeVars, batchVars, gateVars, loopVars, chunkVars>>

\* for t in threads: t.start()
StartThread ==
    /\ mainpc = "start"
    /\ tpc' = [tpc EXCEPT ![mi] = "running"]
    /\ IF mi = NumAgents THEN mainpc' = "join" /\ mi' = 1
                         ELSE mainpc' = mainpc /\ mi' = mi + 1
    /\ UNCHANGED <<fv, ended, writes, frun, tres, tatt, agent_outputs,
                   summaryIn, summaryCalls, fout>>
    /\ UNCHANGED <<pipeVars, batchVars, gateVars, loopVars, chunkVars>>

\* a specialist thread: the blocking API call returns or raises; an
\* exception ends the thread
SpecialistCall(i) ==
    /\ Threaded(fv)
    /\ tpc[i] = "running"
    /\ \/ /\ tpc' = [tpc EXCEPT ![i] = "writing"]
          /\ UNCHANGED tres
       \/ /\ tpc' = [tpc EXCEPT ![i] = "finished"]
          /\ tres' = [tres EXCEPT ![i] = "failed"]
    /\ UNCHANGED <<fv, ended, writes, frun, mainpc, mi, tatt, agent_outputs,
                   summaryIn, summaryCalls, fout>>
    /\ UNCHANGED <<pipeVars, batchVars, gateVars, loopVars, chunkVars>>

\* a specialist thread: agent_outputs[key] = content
SpecialistWrite(i) ==
    /\ Threaded(fv)
    /\ tpc[i] = "writing"
    /\ agent_outputs' = [agent_outputs EXCEPT ![KeyOf(fv, i)] = frun]
    /\ tpc' = [tpc EXCEPT ![i] = "finished"]
    /\ tres' = [tres EXCEPT ![i] = "ok"]
    /\ writes' = [writes EXCEPT ![KeyOf(fv, i)] = Append(@, i)]
    /\ UNCHANGED <<fv, ended, frun, mainpc, mi, tatt, summaryIn, summaryCalls,
                   fout>>
    /\ UNCHANGED <<pipeVars, batchVars, gateVars, loopVars, chunkVars>>

\* for t in threads: t.join()
JoinThread ==
    /\ mainpc = "join"
    /\ Joinable(tpc, mi)
    /\ IF mi = NumAgents THEN mainpc' = "summary" /\ mi' = 1
                         ELSE mainpc' = mainpc /\ mi' = mi + 1
    /\ UNCHANGED <<fv, ended, writes, frun, tpc, tres, tatt, agent_outputs,
                   summaryIn, summaryCalls, fout>>
    /\ UNCHANGED <<pipeVars, batchVars, gateVars, loopVars, chunkVars>>

\* SummaryAgent.run up to the API call: the prompt is built from the map
SummaryBuild ==
    /\ mainpc = "summary"
    /\ IF fv = "demo"
       THEN IF \A i \in Agents : Subscript(agent_outputs, fv, i).ok
            THEN /\ summaryIn' = [i \in Agents |->
                                     Subscript(agent_outputs, fv, i).value]
                 /\ mainpc' = "summary_call"
                 /\ UNCHANGED fout
            ELSE /\ mainpc' = "crashed"
                 /\ fout' = "KeyError"
                 /\ UNCHANGED summaryIn
       ELSE /\ summaryIn' = [i \in Agents |->
                                GetWithDefault(agent_outputs, fv, i)]
            /\ mainpc' = "summary_call"
            /\ UNCHANGED fout
    /\ UNCHANGED <<fv, ended, writes, frun, mi, tpc, tres, tatt, agent_outputs,
                   summaryCalls>>
    /\ UNCHANGED <<pipeVars, batchVars, gateVars, loopVars, chunkVars>>

\* AsyncAgent.process: one attempt of the API call under @retry
TaskAttempt(i) ==
    /\ fv = "pro"
    /\ tpc[i] = "running"
    /\ \/ /\ tpc' = [tpc EXCEPT ![i] = "finished"]
          /\ tres' = [tres EXCEPT ![i] = "ok"]
          /\ ended' = Append(ended, i)
          /\ UNCHANGED tatt
       \/ /\ tatt' = [tatt EXCEPT ![i] = @ + 1]
          /\ IF tatt[i] + 1 < StopAfterAttempt
             THEN UNCHANGED <<tpc, tres, ended>>
             ELSE /\ tpc' = [tpc EXCEPT ![i] = "finished"]
                  /\ tres' = [tres EXCEPT ![i] = "failed"]
                  /\ ended' = Append(ended, i)
    /\ UNCHANGED <<fv, writes, frun, mainpc, mi, agent_outputs, summaryIn,
                   summaryCalls, fout>>
    /\ UNCHANGED <<pipeVars, batchVars, gateVars, loopVars, chunkVars>>

\* orchestrator after gather: the filter and the all-failed exit
GatherReturn ==
    /\ mainpc = "gather"
    /\ AllEnded(tpc)
    /\ IF ValidOutputs(tres, frun) = << >>
       THEN /\ mainpc' = "done"
            /\ fout' = "System Error: All agents failed."
            /\ UNCHANGED summaryIn
       ELSE /\ mainpc' = "summary_call"
            /\ summaryIn' = ValidOutputs(tres, frun)
            /\ UNCHANGED fout
    /\ UNCHANGED <<fv, ended, writes, frun, mi, tpc, tres, tatt, agent_outputs,
                   summaryCalls>>
    /\ UNCHANGED <<pipeVars, batchVars, gateVars, loopVars, chunkVars>>

\* the API call of the summary step returns or raises
SummaryCall ==
    /\ mainpc = "summary_call"
    /\ summaryCalls' = summaryCalls + 1
    /\ \/ mainpc' = "done" /\ fout' = "summary"
       \/ mainpc' = "crashed" /\ fout' = "APIError"
    /\ UNCHANGED <<fv, ended, writes, frun, mi, tpc, tres, tatt, agent_outputs,
                   summaryIn>>
    /\ UNCHANGED <<pipeVars, batchVars, gateVars, loopVars, chunkVars>>

\* the function is called again in the same process: its locals are new,
\* the module-level map is the same object
NextRun ==
    /\ mainpc \in {"done", "crashed"}
    /\ frun < MaxRuns
    /\ frun' = frun + 1
    /\ mainpc' = "idle"
    /\ mi' = 1
    /\ tpc' = [i \in Agents |-> "new"]
    /\ tres' = [i \in Agents |-> "none"]
    /\ tatt' = [i \in Agents |-> 0]
    /\ summaryIn' = << >>
    /\ summaryCalls' = 0
    /\ fout' = "none"
    /\ writes' = [k \in Keys(fv) |-> << >>]
    /\ ended' = << >>
    /\ UNCHANGED <<fv, agent_outputs>>
    /\ UNCHANGED <<pipeVars, batchVars, gateVars, loopVars, chunkVars>>

-----------------------------------------------------------------------------
(* RAGKnowledgePromptAgent.chunk_text.  A text is a sequence of characters; *)
(* offsets count from 0 as in the code.                                     *)

MaxText == 4
MaxChunkSize == 3
MaxChunks == 5
Chars == {"a", " ", "\n"}
Texts == UNION {[1..n -> Chars] : n \in 0..MaxText}

IsSpace(c) == c \in {" ", "\n"}

\* re.sub(r'\s+', ' ', text): every run of whitespace becomes one space
RECURSIVE CollapseSpaces(_)
CollapseSpaces(s) ==
    IF s = << >> THEN << >>
    ELSE IF IsSpace(Head(s))
         THEN IF Len(s) > 1 /\ IsSpace(s[2])
              THEN CollapseSpaces(Tail(s))
              ELSE <<" ">> \o CollapseSpaces(Tail(s))
         ELSE <<Head(s)>> \o CollapseSpaces(Tail(s))

\* str.strip(): leading and trailing whitespace removed
RECURSIVE Strip(_)
Strip(s) ==
    IF s = << >> THEN << >>
    ELSE IF IsSpace(Head(s)) THEN Strip(Tail(s))
    ELSE IF IsSpace(s[Len(s)]) THEN Strip(SubSeq(s, 1, Len(s) - 1))
    ELSE s

Normalize(s) == Strip(CollapseSpaces(s))

\* text[a:b] for 0 <= a <= b <= len(text)
Slice(s, a, b) == SubSeq(s, a + 1, b)
\* c in s
Contains(s, c) == \E i \in 1..Len(s) : s[i] = c
\* s.rindex(c), for c in s
RIndex(s, c) ==
    (CHOOSE i \in 1..Len(s) :
        s[i] = c /\ \A j \in (i + 1)..Len(s) : s[j] # c) - 1
Min(a, b) == IF a <= b THEN a ELSE b

\* the end of the chunk that starts at st: start + chunk_size or the end of
\* the text, pulled back to just after the last separator of that window
ChunkEnd(t, st, size) ==
    LET e == Min(st + size, Len(t))
    IN  IF Contains(Slice(t, st, e), "\n")
        THEN st + RIndex(Slice(t, st, e), "\n") + 1
        ELSE e

\* the only chunk of a text that fits in one
WholeChunk(t) == [chunk_id |-> 0, text |-> t, chunk_size |-> Len(t)]
\* a chunk of the loop
Chunk(t, id, st, e) ==
    [chunk_id |-> id, text |-> Slice(t, st, e), chunk_size |-> e - st,
     start_char |-> st, end_char |-> e]

ChunkInit ==
    /\ text \in Texts
    /\ chunk_size \in 1..MaxChunkSize
    /\ chunk_overlap \in 0..(chunk_size - 1)
    /\ kpc = "call"
    /\ start = 0
    /\ chunks = << >>

ChunkIdle ==
    /\ text = << >> /\ chunk_size = 1 /\ chunk_overlap = 0
    /\ kpc = "off" /\ start = 0 /\ chunks = << >>

\* chunk_text up to the loop: the text is normalized, and a text that fits
\* in one chunk is returned at once
chunk_text_call ==
    /\ kpc = "call"
    /\ text' = Normalize(text)
    /\ start' = 0
    /\ IF Len(text') <= chunk_size
       THEN /\ chunks' = <<WholeChunk(text')>>
            /\ kpc' = "returned"
       ELSE /\ chunks' = << >>
            /\ kpc' = "loop"
    /\ UNCHANGED <<chunk_size, chunk_overlap>>
    /\ UNCHANGED <<pipeVars, batchVars, gateVars, loopVars, fanVars>>

\* one iteration of `while start < len(text)`; the list is followed up to
\* MaxChunks entries
chunk_text_loop ==
    /\ kpc = "loop"
    /\ start < Len(text)
    /\ Len(chunks) < MaxChunks
    /\ LET end == ChunkEnd(text, start, chunk_size)
       IN  /\ chunks' = Append(chunks, Chunk(text, Len(chunks), start, end))
           /\ start' = end - chunk_overlap
    /\ UNCHANGED <<text, chunk_size, chunk_overlap, kpc>>
    /\ UNCHANGED <<pipeVars, batchVars, gateVars, loopVars, fanVars>>

\* the loop condition is false: the chunks are written out and returned
chunk_text_return ==
    /\ kpc = "loop"
    /\ start >= Len(text)
    /\ kpc' = "returned"
    /\ UNCHANGED <<text, chunk_size, chunk_overlap, start, chunks>>
    /\ UNCHANGED <<pipeVars, batchVars, gateVars, loopVars, fanVars>>

-----------------------------------------------------------------------------
(* Specifications *)

vars == <<pipeVars, batchVars, gateVars, loopVars, fanVars, chunkVars>>

Init ==
    PipeInit /\ BatchIdle /\ GateIdle /\ LoopIdle /\ FanIdle /\ ChunkIdle
Next ==
    \/ Invoke
    \/ extract_claim_node
    \/ assess_severity_node
    \/ route_claim_node
Spec == Init /\ [][Next]_vars

\* a run whose Completion Service calls all return or raise: the engine and
\* the node it is in keep taking steps
LiveSpec == Init /\ [][Next]_vars /\ WF_vars(Next)

\* process_batch runs its entries one after the other, each to its end
BatchSpecInit ==
    BatchInit /\ GateIdle /\ LoopIdle /\ FanIdle /\ ChunkIdle
BatchNext ==
    \/ process_batch
    \/ Invoke
    \/ extract_claim_node
    \/ assess_severity_node
    \/ route_claim_node
    \/ process_claim_return
BatchSpec == BatchSpecInit /\ [][BatchNext]_vars /\ WF_vars(BatchNext)

GateSpecInit ==
    GateInit /\ PipeIdle /\ BatchIdle /\ LoopIdle /\ FanIdle /\ ChunkIdle
GateNext == CallGate \/ Revalidate
GateSpec == GateSpecInit /\ [][GateNext]_vars

\* a call of a loop runs to its end: every API call returns or raises
LoopSpecInit ==
    LoopInit /\ PipeIdle /\ BatchIdle /\ GateIdle /\ FanIdle /\ ChunkIdle
LoopNext ==
    \/ CallLoop
    \/ Generate
    \/ Evaluate
    \/ Instruct
LoopSpec == LoopSpecInit /\ [][LoopNext]_vars /\ WF_vars(LoopNext)

\* the threads and tasks of a fan-out run in any interleaving
FanSpecInit ==
    FanInit /\ PipeIdle /\ BatchIdle /\ GateIdle /\ LoopIdle /\ ChunkIdle
FanNext ==
    \/ CallFanOut
    \/ StartThread
    \/ \E i \in Agents : SpecialistCall(i)
    \/ \E i \in Agents : SpecialistWrite(i)
    \/ JoinThread
    \/ SummaryBuild
    \/ \E i \in Agents : TaskAttempt(i)
    \/ GatherReturn
    \/ SummaryCall
    \/ NextRun
FanSpec == FanSpecInit /\ [][FanNext]_vars

\* one call of chunk_text: a single thread that keeps running
ChunkSpecInit ==
    ChunkInit /\ PipeIdle /\ BatchIdle /\ GateIdle /\ LoopIdle /\ FanIdle
ChunkNext ==
    \/ chunk_text_call
    \/ chunk_text_loop
    \/ chunk_text_return
ChunkSpec == ChunkSpecInit /\ [][ChunkNext]_vars /\ WF_vars(ChunkNext)

-----------------------------------------------------------------------------
(* Properties of the claims pipeline *)

LogOf(n) == SelectSeq(log, LAMBDA e : e.step = n)
FailedLog == SelectSeq(log, LAMBDA e : ~e.ok)
LastEntered == entered[Len(entered)]

\* C1: once a step has ended with status "failed", the engine is at END, no
\* step after the failing one was entered or has called the Completion
\* Service, nothing runs afterwards and the record keeps status "failed".
C1_FailFast ==
    /\ [](status = "failed" =>
            /\ node = "END"
            /\ Len(entered) >= 1
            /\ ~log[Len(log)].ok
            /\ log[Len(log)].step = LastEntered
            /\ \A i \in 1..Len(log) :
                   StepIndex(log[i].step) <= StepIndex(LastEntered)
            /\ \A i \in 1..Len(entered) : entered[i] = Steps[i])
    /\ [][status = "failed" =>
            (status' = "failed" /\ log' = log /\ entered' = entered)]_vars

\* a run that failed in assess_severity: route_claim was never entered
C1_Witness ==
    /\ status = "failed" /\ node = "END"
    /\ entered = <<"extract_claim", "assess_severity">>

AllRejectedByGate(n) ==
    \A i \in 1..Len(LogOf(n)) :
        ~LogOf(n)[i].ok /\ LogOf(n)[i].exc = "ValueError"

\* C2: in lg the extraction step never calls the Completion Service more
\* than 3 times; when the gate rejects every response the step has not
\* failed before the 3rd rejection, and it is left after exactly 3 calls
\* with status "failed".
C2_RetryBound ==
    pv = "lg" =>
        /\ Len(LogOf("extract_claim")) <= 3
        /\ AllRejectedByGate("extract_claim") =>
              /\ Len(LogOf("extract_claim")) < 3 =>
                    (status # "failed" /\ node \in {"START", "extract_claim"})
              /\ Len(LogOf("extract_claim")) = 3 =>
                    (status = "failed" /\ node = "END" /\ retry_count = 3)

C2_Witness ==
    /\ pv = "lg" /\ status = "failed" /\ node = "END"
    /\ Len(LogOf("extract_claim")) = 3
    /\ AllRejectedByGate("extract_claim")

StatusRank(st) ==
    CASE st \in {"unset", "processing"} -> 0
      [] st = "claim_extracted"          -> 1
      [] st = "severity_assessed"        -> 2
      [] st = "completed"                -> 3
      [] st = "failed"                   -> 4

\* C5: status only moves forward along unset/processing -> claim_extracted
\* -> severity_assessed -> completed, or to failed; failed never changes.
C5_StatusForward ==
    [][/\ status = "failed" => status' = "failed"
       /\ StatusRank(status') >= StatusRank(status)
       /\ status' # status =>
             \/ status' = "failed"
             \/ StatusRank(status') = StatusRank(status) + 1]_vars

C5_Witness == status = "completed" /\ node = "END"

\* C9 as stated: a RuntimeError of get_completion is the last invocation of
\* the run and leaves the run failed.
C9_TransportNotRetried ==
    \A i \in 1..Len(log) :
        log[i].exc = "RuntimeError" => (i = Len(log) /\ status = "failed")

\* C10: the errors list is, entry for entry, the list of the failed
\* attempts of the run: one entry per failed Completion Service invocation,
\* in order, naming the step and carrying the reason.
C10_EveryFailureRecorded ==
    /\ Len(errors) = Len(FailedLog)
    /\ \A i \in 1..Len(FailedLog) :
          errors[i] = ErrorEntry(FailedLog[i].step, FailedLog[i])

\* a final record with a transport failure and gate rejections of retries
C10_Witness ==
    /\ node = "END" /\ Len(errors) = 3
    /\ errors[1].exc = "RuntimeError"
    /\ errors[2].exc = "ValueError" /\ errors[3].exc = "ValueError"

-----------------------------------------------------------------------------
Populated(x) == x # None
\* the step whose attempt was the last of the run
LastStep == log[Len(log)].step

\* C14: in a final record status "completed" implies that claim_info,
\* severity and routing are all populated; a record that failed at step k
\* has the structured fields of the steps before k populated and none from
\* step k onward.
C14_RecordShape ==
    node = "END" =>
        /\ status = "completed" =>
              (Populated(claim_info) /\ Populated(severity)
                  /\ Populated(routing))
        /\ status = "failed" =>
              /\ Populated(claim_info) <=> StepIndex(LastStep) > 1
              /\ Populated(severity) <=> StepIndex(LastStep) > 2
              /\ ~Populated(routing)

\* a record that failed in route_claim
C14_Witness ==
    /\ node = "END" /\ status = "failed" /\ LastStep = "route_claim"
    /\ Populated(claim_info) /\ Populated(severity) /\ ~Populated(routing)

\* C15: claim_info changes only in extract_claim, severity only in
\* assess_severity, routing only in route_claim, each only from None to its
\* value (so at most once per run and never afterwards); no step changes
\* fnol or model.
C15_WriteOnce ==
    [][/\ claim_info' # claim_info =>
             (node = "extract_claim" /\ ~Populated(claim_info))
       /\ severity' # severity =>
             (node = "assess_severity" /\ ~Populated(severity))
       /\ routing' # routing =>
             (node = "route_claim" /\ ~Populated(routing))
       /\ fnol' = fnol /\ model' = model]_vars

\* a completed lg run whose extraction was accepted at the third attempt
C15_Witness ==
    /\ pv = "lg" /\ node = "END" /\ status = "completed"
    /\ retry_count = 2 /\ fnol \in Fnols /\ model \in Models
    /\ Populated(claim_info) /\ Populated(severity) /\ Populated(routing)

IsPrefix(a, b) == Len(a) <= Len(b) /\ \A i \in 1..Len(a) : a[i] = b[i]

\* C16: every step and every retry leaves errors an extension of what it
\* was: entries are never removed, reordered or overwritten.
C16_ErrorsOnlyGrow == [][IsPrefix(errors, errors')]_vars

\* two failed extraction attempts, then an accepted one
C16_Witness ==
    /\ pv = "lg" /\ Len(errors) = 2 /\ status = "claim_extracted"
    /\ node = "assess_severity"

\* C20: the engine enters each step at most once and only in the order
\* extract_claim, assess_severity, route_claim; a step that is repeated is
\* repeated inside its one entry (more attempts than entries).
C20_EngineOrder ==
    /\ IsPrefix(entered, Steps)
    /\ \A i \in 1..Len(log) : \E j \in 1..Len(entered) : entered[j] = log[i].step
    /\ \A i, j \in 1..Len(log) : i <= j =>
          StepIndex(log[i].step) <= StepIndex(log[j].step)

\* all three steps entered once, the first one having made three attempts
C20_Witness ==
    /\ entered = Steps /\ node = "END"
    /\ Len(LogOf("extract_claim")) = 3

-----------------------------------------------------------------------------
\* C21: every pipeline run terminates, and the status of its final record
\* is completed or failed, never processing, claim_extracted or
\* severity_assessed (nor unset).
C21_TerminatesFinal ==
    /\ <>(node = "END")
    /\ [](node = "END" => status \in {"completed", "failed"})

\* a cp run that ended failed in its second step
C21_Witness ==
    /\ pv = "cp" /\ node = "END" /\ status = "failed"
    /\ Len(log) = 2 /\ LastStep = "assess_severity"

\* C25 as stated: in every record that reaches status completed the
\* claim_id of the Routing Record equals the claim_id of the Extraction
\* Record of the same run.
C25_RoutingClaimId ==
    status = "completed" => routing.claim_id = claim_info.claim_id

\* C27 as stated: in every completed record a claim assessed High is in the
\* total_loss (or specialist) queue, and a glass-only claim assessed Low is
\* in the glass queue.
C27_QueueMatchesSeverity ==
    status = "completed" =>
        /\ severity.severity = "High" =>
              routing.queue \in {"total_loss", "specialist"}
        /\ (claim_info.damage_area = {"glass"} /\ severity.severity = "Low")
              => routing.queue = "glass"

\* C28: in the claims_processor graph the errors list of the final record
\* is non-empty exactly when the final status is failed; the run is reported
\* successful iff errors is empty, which is exactly when it is completed.
C28_ErrorsIffFailed ==
    (pv = "cp" /\ node = "END") =>
        /\ errors # << >> <=> status = "failed"
        /\ test_direct(errors) <=> status = "completed"

\* a cp run that failed in its last step, reported as failed
C28_Witness ==
    /\ pv = "cp" /\ node = "END" /\ status = "failed"
    /\ LastStep = "route_claim" /\ Len(errors) = 1 /\ ~test_direct(errors)

\* C29 as stated: a step whose responses are all rejected by its gate calls
\* the Completion Service again until the retry bound is reached, the
\* severity and routing steps like the extraction step, before it returns
\* failed.
C29_EveryStepRetries ==
    (node = "END" /\ status = "failed" /\ AllRejectedByGate(LastStep)) =>
        Len(LogOf(LastStep)) = RetryBound

FailedExtractions == SelectSeq(LogOf("extract_claim"), LAMBDA e : ~e.ok)

\* C30: in the LangGraph pipeline retry_count changes only in the extraction
\* step, by exactly one per failed extraction attempt, never goes down, and
\* stays within 0..3; a run that fails in extraction ends with retry_count
\* = 3 and three extraction entries in errors.
C30_RetryCount ==
    /\ [](pv = "lg" =>
            /\ retry_count \in 0..3
            /\ retry_count = Len(FailedExtractions)
            /\ (node = "END" /\ status = "failed"
                   /\ LastStep = "extract_claim") =>
                  /\ retry_count = 3
                  /\ Len(SelectSeq(errors, LAMBDA e :
                                     e.step = "Extraction error")) = 3)
    /\ [][pv = "lg" =>
            /\ retry_count' >= retry_count
            /\ retry_count' # retry_count =>
                  (node = "extract_claim" /\ retry_count' = retry_count + 1)
         ]_vars

\* an lg run that gave up after a third failed attempt, a transport failure
C30_Witness ==
    /\ pv = "lg" /\ node = "END" /\ status = "failed" /\ retry_count = 3
    /\ Len(errors) = 3 /\ errors[3].exc = "RuntimeError"

\* C31: assess_severity_node is entered only with claim_info populated and
\* route_claim_node only with claim_info and severity populated, so that the
\* reads of claim_info before the try block never raise: no run ends in an
\* exception outside a try block.
C31_NodeInputsPopulated ==
    /\ node = "assess_severity" => Populated(claim_info)
    /\ node = "route_claim" => Populated(claim_info) /\ Populated(severity)
    /\ node # "CRASHED"

\* a cp run standing in route_claim_node after two successful steps
C31_Witness ==
    /\ pv = "cp" /\ node = "route_claim" /\ Len(log) = 2
    /\ Populated(claim_info) /\ Populated(severity)

-----
(* Properties of process_batch *)

\* the record is what one process_claim of its own input makes: its fnol
\* and model are those of the call, it is final, and its errors and
\* retry_count come from the attempts of its own run only
OwnRun ==
    /\ fnol = fnols[Len(results) + 1]
    /\ model = (IF bmodel = NoText THEN DefaultModel ELSE bmodel)
    /\ status \in {"completed", "failed"}
    /\ Len(errors) = Len(FailedLog)
    /\ \A i \in 1..Len(FailedLog) :
          errors[i] = ErrorEntry(FailedLog[i].step, FailedLog[i])
    /\ retry_count = Len(SelectSeq(LogOf("extract_claim"), LAMBDA e : ~e.ok))
    /\ Populated(claim_info) <=> (\E i \in 1..Len(log) :
                                    log[i].step = "extract_claim" /\ log[i].ok)
    /\ Populated(severity) <=> (\E i \in 1..Len(log) :
                                  log[i].step = "assess_severity" /\ log[i].ok)
    /\ Populated(routing) <=> (\E i \in 1..Len(log) :
                                 log[i].step = "route_claim" /\ log[i].ok)

\* C19: process_batch returns exactly one final record per input, in input
\* order; each record is the outcome of the run of its own input alone;
\* records already in the list are never touched by a later entry, whatever
\* fails or is retried there; and every batch is processed to its end.
C19_BatchIndependence ==
    /\ [](/\ Len(results) <= Len(fnols)
          /\ \A i \in 1..Len(results) :
                /\ results[i].fnol = fnols[i]
                /\ results[i].status \in {"completed", "failed"}
          /\ bpc = "done" => Len(results) = Len(fnols))
    /\ [][\/ results' = results
          \/ /\ OwnRun
             /\ results' = Append(results, FinalState)]_vars
    /\ [][bpc' = "claim" /\ bpc = "loop" =>
            /\ errors' = << >> /\ retry_count' = 0
            /\ claim_info' = None /\ severity' = None /\ routing' = None]_vars
    /\ <>(bpc = "done")

\* a batch of two whose first entry failed after three extraction attempts
\* and whose second entry completed
C19_Witness ==
    /\ bpc = "done" /\ Len(results) = 2
    /\ results[1].status = "failed" /\ results[1].retry_count = 3
    /\ results[2].status = "completed" /\ results[2].retry_count = 0
    /\ results[1].fnol # results[2].fnol

-----
(* Properties of the gates *)

InCents(lo, hi, x) == ~x.nan /\ lo <= x.v /\ x.v <= hi

\* C8: an assessment accepted by gate2 has est_cost in the interval of its
\* severity: Low in [100, 1000], Medium in (1000, 5000], High in
\* (5000, 50000]; Low with 1000 is accepted, Low above 1000 is rejected.
C8_SeverityCostConsistency ==
    (gname = "gate2" /\ gout # Pending) =>
        /\ gout.ok =>
              /\ gout.value.severity \in {"Low", "Medium", "High"}
              /\ gout.value.est_cost = gin.est_cost
              /\ gout.value.severity = gin.severity
              /\ gin.severity = "Low" => InCents(10000, 100000, gin.est_cost)
              /\ gin.severity = "Medium" =>
                    InCents(100001, 500000, gin.est_cost)
              /\ gin.severity = "High" =>
                    InCents(500001, 5000000, gin.est_cost)
        /\ (gin.shape = "object" /\ gin.complete /\ gin.severity = "Low"
               /\ gin.est_cost = Cents(100000)) => gout.ok
        /\ (gin.severity = "Low" /\ ~InCents(0, 100000, gin.est_cost))
              => ~gout.ok

C8_Witness ==
    /\ gname = "gate2" /\ gout # Pending /\ gout.ok
    /\ gin.severity = "Low" /\ gin.est_cost = Cents(100000)

-----------------------------------------------------------------------------
\* the response is not JSON, not an object, or lacks a field of the model
MalformedInput == gin.shape # "object" \/ ~gin.complete
\* the cost of the response lies outside the interval of its severity
OutOfRange ==
    \/ gin.severity = "Low" /\ ~InCents(10000, 100000, gin.est_cost)
    \/ gin.severity = "Medium" /\ ~InCents(100001, 500000, gin.est_cost)
    \/ gin.severity = "High" /\ ~InCents(500001, 5000000, gin.est_cost)
GateCalled == gname \in GateNames /\ gout # Pending

\* C22 as stated: a gate given malformed, incomplete or out-of-range output
\* never raises; it returns a ValidationError value carrying the reason.
C22_GateNeverRaises ==
    (GateCalled /\ gv = "cp"
        /\ (MalformedInput \/ (gname = "gate2" /\ OutOfRange))) =>
        /\ gout.ok
        /\ gout.value.tag = "ValidationError"

\* C22, amended: a gate of gates.py (and of the LangGraph implementation)
\* given malformed, incomplete or out-of-range output returns no record; it
\* raises, and what it raises is always a ValueError carrying a reason.
C22_GateRaisesValueError ==
    (GateCalled /\ gv \in Variants) =>
        /\ (MalformedInput \/ (gname = "gate2" /\ OutOfRange)) => ~gout.ok
        /\ ~gout.ok =>
              (gout.exc = "ValueError" /\ gout.reason # ""
                  /\ gout.value = None)

\* gate2 of gates.py rejecting a Low assessment of 1000.01
C22_Witness ==
    /\ GateCalled /\ gv = "cp" /\ gname = "gate2"
    /\ gin.shape = "object" /\ gin.complete /\ gin.severity = "Low"
    /\ gin.est_cost = Cents(100001)
    /\ ~gout.ok /\ gout.exc = "ValueError"

\* C23 as stated: every gate failure surfaces from the gates and from the
\* step functions of the sequential chain as a ValueError carrying a
\* reason, never as another kind of error.
C23_OneErrorKind ==
    (gout # Pending /\ ~gout.ok /\ gin.shape # "raise") =>
        (gout.exc = "ValueError" /\ gout.reason # "")

\* C24 as stated: gate1 accepts a record only if its identifier has 2 to 10
\* characters, its narrative at least 10, it has at least one damage
\* category and every category is in the closed set.
C24_ExtractionGate ==
    (gname = "gate1" /\ gout # Pending /\ gout.ok) =>
        /\ Len(gin.claim_id) >= 2 /\ Len(gin.claim_id) <= 10
        /\ gin.loss_len >= 10
        /\ gin.damage_area # {}
        /\ gin.damage_area \subseteq DamageLiteral

AcceptingLevels(v, r) ==
    {s \in SeverityNames :
        gate2_cost_range_ok(v, [r EXCEPT !.severity = s]).ok}

\* C39: the acceptance intervals of gate2_cost_range_ok are disjoint and
\* contiguous: a cost is accepted under at most one severity level, a cost
\* in [100, 50000] under exactly one, and an accepted assessment has that
\* level.
C39_DisjointContiguous ==
    (gname = "gate2" /\ gin.shape = "object" /\ gin.complete
       /\ gout # Pending) =>
        /\ Cardinality(AcceptingLevels(gv, gin)) <= 1
        /\ InCents(10000, 5000000, gin.est_cost) =>
              Cardinality(AcceptingLevels(gv, gin)) = 1
        /\ gout.ok => AcceptingLevels(gv, gin) = {gin.severity}

\* 5000 submitted as High is rejected: it is accepted as Medium only
C39_Witness ==
    /\ gname = "gate2" /\ gv = "cp" /\ gin.shape = "object" /\ gin.complete
    /\ gin.severity = "High" /\ gin.est_cost = Dollars(5000)
    /\ gout # Pending /\ ~gout.ok
    /\ AcceptingLevels(gv, gin) = {"Medium"}

-----
(* Properties of the evaluator-optimizer loops *)

Terminated == lpc \in {"returned", "raised"}
ApiFailed == result.exc \in {"RetryError", "APIError"}
NeverApproved == \A i \in 1..Len(evalLog) : ~evalLog[i]
\* the cycles are numbered 1, 2, ... and the Generator ran once in each
CyclesRun(k) ==
    /\ Len(genLog) = k /\ Len(evalLog) = k
    /\ \A i \in 1..k : genLog[i] = i

FailureOutcome ==
    CASE lv \in {"opt", "recipe"} -> result.kind = "None"
      [] lv = "eval" /\ N = 0 -> result.kind = "raised"
      [] OTHER -> /\ result.kind = "dict" /\ result.evaluation = "no"
                  /\ result.iterations = N

\* C3: no loop ever starts an (N+1)-th cycle; a call whose Evaluator
\* rejected every candidate (and whose API calls all returned) ends after
\* exactly N Generator/Evaluator cycles with the failure outcome, and every
\* call ends.
C3_ExhaustionAfterN ==
    /\ [](/\ Len(genLog) <= N /\ Len(evalLog) <= N
          /\ (Terminated /\ NeverApproved /\ ~ApiFailed) =>
                (CyclesRun(N) /\ FailureOutcome))
    /\ <>Terminated

C3_Witness ==
    /\ lpc = "returned" /\ N = 3 /\ NeverApproved /\ Len(evalLog) = 3
    /\ Len(genLog) = 3

\* C4: when the Evaluator approves for the first time in cycle k, the call
\* returns in that cycle with the candidate generated in cycle k; the
\* Generator has been invoked exactly k times and nothing is invoked
\* afterwards.
C4_StopsAtApproval ==
    /\ [](\A k \in 1..Len(evalLog) :
            evalLog[k] =>
                /\ k = Len(evalLog) /\ k <= N
                /\ lpc = "returned"
                /\ CyclesRun(k)
                /\ result.kind \in {"value", "dict"}
                /\ result.final = k
                /\ lv = "eval" => (result.iterations = k
                                    /\ result.evaluation = "yes"))
    /\ [][(Len(evalLog) > 0 /\ evalLog[Len(evalLog)]) =>
            (genLog' = genLog /\ evalLog' = evalLog /\ result' = result)]_vars

\* approval in the second of three cycles
C4_Witness ==
    /\ N = 3 /\ evalLog = <<FALSE, TRUE>> /\ lpc = "returned"
    /\ result.final = 2

-----------------------------------------------------------------------------
\* the ceiling was reached: every cycle ran and every verdict was a rejection
Exhausted ==
    /\ Terminated /\ ~ApiFailed /\ NeverApproved
    /\ N >= 1 /\ Len(evalLog) = N

\* C11 as stated: when the ceiling is reached without approval, the loop
\* ends in an outcome that differs from every approved result and that
\* carries both the last candidate and the last verdict.
C11_ExhaustionCarriesLast ==
    Exhausted =>
        /\ \A i \in 0..MaxN, d \in 0..MaxN : result # ApprovedResult(lv, i, d)
        /\ result.final = N
        /\ result.evaluation = "no"

\* the Generator has just run in a cycle after the first
LaterCycleGenerated == lpc = "evaluate" /\ cyc >= 1

\* C12: in every cycle after the first the Generator prompt is the original
\* request plus the feedback of the immediately preceding cycle and of no
\* earlier cycle (cycle cyc + 1 is running, cycle cyc preceded it); no loop
\* quotes the feedback of an earlier cycle.
C12_OnlyPrecedingFeedback ==
    LaterCycleGenerated =>
        /\ prompt.orig
        /\ prompt.fb \subseteq {cyc}
        /\ HasRetry(lv) =>
              /\ feedback.cycle = cyc
              /\ prompt.fb = (IF feedback.empty THEN {} ELSE {cyc})
              /\ prompt.resp = {}

\* the third cycle of opt, prompted with the feedback of the second
C12_Witness ==
    /\ lv = "opt" /\ lpc = "evaluate" /\ cyc = 2 /\ prompt.fb = {2}
    /\ evalLog = <<FALSE, FALSE>>

\* C13 as stated: whenever the Evaluator rejects a candidate in a cycle that
\* is not the last, the feedback of the verdict is non-empty and the next
\* Generator invocation receives it, so the next Generator prompt is never
\* just the original request.
C13_RejectionFeedbackReachesGenerator ==
    (LaterCycleGenerated /\ HasRetry(lv)) =>
        /\ ~feedback.empty
        /\ cyc \in prompt.fb
        /\ prompt # FeedbackPrompt(NoFeedback)

\* C32: in run_optimization_loop an invocation of the Generator or of the
\* Evaluator makes at most 3 attempts; a run ends with an exception exactly
\* after a third failed attempt, its outcome is then the exception (neither a
\* draft nor None), and nothing runs after it.
C32_ThreeAttempts ==
    /\ [](lv = "opt" =>
            /\ attempts <= 3
            /\ lpc = "raised" => (attempts = 3 /\ result.kind = "raised"))
    /\ [][(lv = "opt" /\ lpc = "raised") =>
            UNCHANGED <<lpc, cyc, attempts, genLog, evalLog, result>>]_vars

\* the Evaluator of the second cycle failed three times
C32_Witness ==
    /\ lv = "opt" /\ lpc = "raised" /\ attempts = 3
    /\ Len(genLog) = 2 /\ Len(evalLog) = 1 /\ result.kind = "raised"

\* C35: when EvaluationAgent.evaluate returns, iterations is the cycle of
\* the first approval, or max_interactions when no cycle was approved; it
\* equals the number of worker invocations, and final_response is the
\* output of the last worker invocation.
C35_IterationsCountWorkerCalls ==
    (lv = "eval" /\ lpc = "returned") =>
        /\ result.kind = "dict"
        /\ result.iterations = Len(genLog)
        /\ result.final = genLog[Len(genLog)]
        /\ result.final = draft
        /\ IF NeverApproved
           THEN result.iterations = N
           ELSE /\ evalLog[result.iterations]
                /\ \A k \in 1..(result.iterations - 1) : ~evalLog[k]

\* approved at the second of three allowed cycles
C35_Witness ==
    /\ lv = "eval" /\ lpc = "returned" /\ N = 3
    /\ evalLog = <<FALSE, TRUE>> /\ genLog = <<1, 2>>
    /\ result.iterations = 2 /\ result.final = 2

\* C36: in EvaluationAgent.evaluate the first cycle's worker prompt is the
\* original prompt alone, and the prompt of every later cycle quotes the
\* original prompt, the worker response of the cycle before it and the
\* instructions of the cycle before it, nothing of an earlier cycle.
C36_PromptFromPrecedingCycle ==
    (lv = "eval" /\ lpc \in {"generate", "evaluate", "instruct"}) =>
        /\ prompt.orig
        /\ prompt.fb = (IF cyc = 0 THEN {} ELSE {cyc})
        /\ prompt.resp = (IF cyc = 0 THEN {} ELSE {cyc})

\* the worker is about to run in the third cycle
C36_Witness ==
    /\ lv = "eval" /\ lpc = "generate" /\ cyc = 2
    /\ prompt = [orig |-> TRUE, fb |-> {2}, resp |-> {2}]

\* C37 as stated: for every max_interactions >= 0 a call of
\* EvaluationAgent.evaluate whose API calls all return ends by returning a
\* dict with final_response, evaluation and iterations, iterations being at
\* most max_interactions; the loop bound causes no error.
C37_AlwaysReturnsDict ==
    (lv = "eval" /\ Terminated /\ ~ApiFailed) =>
        /\ lpc = "returned"
        /\ result.kind = "dict"
        /\ result.iterations <= N

-----
(* Properties of the fan-out *)

PastJoin == mainpc \in {"summary", "summary_call", "done", "crashed"}
FailedAgents == {i \in Agents : tres[i] = "failed"}
SucceededAgents == {i \in Agents : tres[i] = "ok"}

\* C6: the summary step is reached, builds its prompt and calls the
\* Completion Service only when every specialist has ended, successfully
\* or by failing; while a specialist is still running it has not started.
C6_Barrier ==
    /\ PastJoin =>
          \A i \in Agents : tpc[i] = "finished" /\ tres[i] \in {"ok", "failed"}
    /\ (\E i \in Agents : tpc[i] # "finished") =>
          (summaryIn = << >> /\ summaryCalls = 0 /\ fout = "none")

\* the summary step about to call, after one specialist failed
C6_Witness ==
    /\ mainpc = "summary_call"
    /\ Cardinality(FailedAgents) = 1 /\ Cardinality(SucceededAgents) = 2

\* C7 as stated: when exactly one of the three specialists failed, the
\* other two have recorded their results and the summary step is executed
\* with the two results of this run plus a placeholder for the third.
C7_FanOutIndependence ==
    (mainpc \in {"summary_call", "done", "crashed"}
        /\ Cardinality(FailedAgents) = 1
        /\ Cardinality(SucceededAgents) = 2) =>
        /\ Len(summaryIn) = NumAgents
        /\ \A i \in SucceededAgents : summaryIn[i] = ResultOf(i, frun)
        /\ \A i \in FailedAgents : summaryIn[i] = Placeholder(i)

\* C17: in the thread-based fan-out the specialists have pairwise
\* distinct keys, every write of a key is made by the specialist that owns
\* the key, and no key is written more than once in a run, in any
\* interleaving of the threads.
C17_DistinctKeys ==
    Threaded(fv) =>
        /\ \A i, j \in Agents : i # j => KeyOf(fv, i) # KeyOf(fv, j)
        /\ \A k \in DOMAIN writes :
              /\ Len(writes[k]) <= 1
              /\ \A n \in 1..Len(writes[k]) : KeyOf(fv, writes[k][n]) = k

\* the second run of a process, all three threads having written
C17_Witness ==
    /\ Threaded(fv) /\ frun = 2 /\ mainpc = "summary"
    /\ \A i \in Agents : writes[KeyOf(fv, i)] = <<i>>

\* C18 as stated: the synthesis step of a run never receives a specialist
\* result written during an earlier run, also when that specialist fails in
\* the later run.
C18_RunsShareNoState ==
    \A i \in 1..Len(summaryIn) :
        summaryIn[i].kind = "result" => summaryIn[i].run = frun

\* C33: in the asyncio orchestrator the summary step calls the Completion
\* Service exactly once when at least one specialist succeeded and never
\* when all of them failed; then the fixed string is what is returned.
C33_SummaryOnceOrNever ==
    fv = "pro" =>
        /\ summaryCalls <= 1
        /\ summaryCalls = 1 => SucceededAgents # {}
        /\ mainpc \in {"done", "crashed"} =>
              /\ summaryCalls = (IF SucceededAgents # {} THEN 1 ELSE 0)
              /\ SucceededAgents = {} =>
                    fout = "System Error: All agents failed."

\* every specialist used up its three attempts
C33_Witness ==
    /\ fv = "pro" /\ mainpc = "done" /\ summaryCalls = 0
    /\ \A i \in Agents : tres[i] = "failed" /\ tatt[i] = StopAfterAttempt
    /\ fout = "System Error: All agents failed."

\* C34: in the asyncio orchestrator the summary step is handed exactly the
\* outputs of the specialists that succeeded, in AGENTS_CONFIG order, in
\* whatever order the tasks ended.
C34_ConfigOrder ==
    (fv = "pro" /\ mainpc \in {"summary_call", "done", "crashed"}
       /\ SucceededAgents # {}) =>
        /\ {summaryIn[k].agent : k \in 1..Len(summaryIn)} = SucceededAgents
        /\ Len(summaryIn) = Cardinality(SucceededAgents)
        /\ \A k \in 1..Len(summaryIn) :
              summaryIn[k] = ResultOf(summaryIn[k].agent, frun)
        /\ \A j, k \in 1..Len(summaryIn) :
              j < k => summaryIn[j].agent < summaryIn[k].agent

\* the third task ended first and the second failed: the summary is handed
\* the first and the third output, in that order
C34_Witness ==
    /\ fv = "pro" /\ mainpc = "summary_call" /\ ended = <<3, 1, 2>>
    /\ tres = <<"ok", "failed", "ok">>
    /\ summaryIn = <<ResultOf(1, frun), ResultOf(3, frun)>>

-----
(* Properties of chunk_text *)

\* the chunks the loop made (those of a text longer than chunk_size)
LoopChunks == IF kpc = "call" \/ Len(text) <= chunk_size THEN << >> ELSE chunks
\* every offset of the text lies in some chunk
Covered ==
    IF Len(text) <= chunk_size
    THEN chunks = <<WholeChunk(text)>>
    ELSE \A p \in 0..(Len(text) - 1) :
            \E k \in 1..Len(chunks) :
                chunks[k].start_char <= p /\ p < chunks[k].end_char

\* C38 as stated: for 0 <= chunk_overlap < chunk_size every call of
\* chunk_text returns; the start offsets of its chunks strictly increase,
\* and the returned chunks cover the whole text.
C38_ChunkTextTerminates ==
    /\ <>(kpc = "returned")
    /\ [](\A j, k \in 1..Len(LoopChunks) :
            j < k => LoopChunks[j].start_char < LoopChunks[k].start_char)
    /\ [](kpc = "returned" => Covered)

====
